---- MODULE Spec2Model ----
(***************************************************************************)
(* Model of the Scripts repository: autotest.py (the test-case runner).    *)
(* Python str and bytes values are sequences: a str is a sequence of       *)
(* one-character strings, a bytes value a sequence of small integers.      *)
(***************************************************************************)
EXTENDS Integers, Sequences, FiniteSets, TLC

(* ------------------------------------------------------------------ *)
(* Bounds of the model                                                  *)
(* ------------------------------------------------------------------ *)

\* longest stdout a modelled program writes
MaxLen == 2
\* size of the write buffer of a NamedTemporaryFile, scaled down from the
\* platform's block size: a write of at most BufSize bytes stays in the buffer
BufSize == 1

(* ------------------------------------------------------------------ *)
(* Python str helpers                                                   *)
(* ------------------------------------------------------------------ *)

Letters == {"a", "b", "c", "d", "e", "f", "g", "i", "l", "n", "o", "p",
            "r", "s", "t", "u", "w", "x", "y"}

Digits == {"0", "1", "2", "3", "4", "5", "6", "7", "8", "9"}

DigitVal(c) ==
    CASE c = "0" -> 0 [] c = "1" -> 1 [] c = "2" -> 2 [] c = "3" -> 3
      [] c = "4" -> 4 [] c = "5" -> 5 [] c = "6" -> 6 [] c = "7" -> 7
      [] c = "8" -> 8 [] c = "9" -> 9

\* s[-n:]
LastN(s, n) == IF Len(s) <= n THEN s ELSE SubSeq(s, Len(s) - n + 1, Len(s))

\* s[i:] with a 1-based i
From(s, i) == SubSeq(s, i, Len(s))

StartsWith(s, p) == Len(s) >= Len(p) /\ SubSeq(s, 1, Len(p)) = p

Contains(s, c) == \E i \in 1..Len(s) : s[i] = c

RECURSIVE Replace(_, _, _)
\* s.replace(old, new): every non-overlapping occurrence, leftmost first
Replace(s, old, new) ==
    IF s = <<>> THEN <<>>
    ELSE IF StartsWith(s, old) THEN new \o Replace(From(s, Len(old) + 1), old, new)
    ELSE <<s[1]>> \o Replace(Tail(s), old, new)

RECURSIVE Split(_, _)
\* s.split(c): the pieces between the occurrences of the character c
Split(s, c) ==
    IF ~Contains(s, c) THEN <<s>>
    ELSE LET i == CHOOSE k \in 1..Len(s) :
                      s[k] = c /\ \A j \in 1..(k - 1) : s[j] # c
         IN  <<SubSeq(s, 1, i - 1)>> \o Split(From(s, i + 1), c)

RECURSIVE Join(_, _)
\* sep.join(parts)
Join(parts, sep) ==
    IF parts = <<>> THEN <<>>
    ELSE IF Len(parts) = 1 THEN parts[1]
    ELSE parts[1] \o sep \o Join(Tail(parts), sep)

\* '/'.join(path.split('/')[-2:])
LastTwo(path) == Join(LastN(Split(path, "/"), 2), <<"/">>)

\* os.path.basename(path)
Basename(path) == LET parts == Split(path, "/") IN parts[Len(parts)]

\* re.sub(r'[a-zA-Z]*', '', s)
StripLetters(s) == SelectSeq(s, LAMBDA c : c \notin Letters)

RECURSIVE DigitsVal(_)
DigitsVal(s) ==
    IF s = <<>> THEN 0 ELSE 10 * DigitsVal(SubSeq(s, 1, Len(s) - 1)) + DigitVal(s[Len(s)])

\* the digit groups int() accepts: digits, single underscores between digits
IsIntBody(s) ==
    /\ s # <<>>
    /\ \A i \in 1..Len(s) : s[i] \in Digits \/ s[i] = "_"
    /\ s[1] \in Digits /\ s[Len(s)] \in Digits
    /\ \A i \in 1..(Len(s) - 1) : ~(s[i] = "_" /\ s[i + 1] = "_")

\* int(s) for a str s: ok is FALSE where int() raises ValueError
PyInt(s) ==
    LET signed == s # <<>> /\ s[1] \in {"-", "+"}
        body   == IF signed THEN Tail(s) ELSE s
        mag    == DigitsVal(SelectSeq(body, LAMBDA c : c \in Digits))
    IN  IF IsIntBody(body)
        THEN [ok |-> TRUE, val |-> IF signed /\ s[1] = "-" THEN 0 - mag ELSE mag]
        ELSE [ok |-> FALSE, val |-> 0]

(* ------------------------------------------------------------------ *)
(* Names used by the modelled invocations                               *)
(* ------------------------------------------------------------------ *)

Slash == <<"/">>
S_tests == <<"/", "t", "e", "s", "t", "s">>
S_solutions == <<"/", "s", "o", "l", "u", "t", "i", "o", "n", "s">>
N_tests == Tail(S_tests)
N_pout == <<"p", ".", "o", "u", "t">>
N_cargo == <<"c", "a", "r", "g", "o">>
N_run == <<"r", "u", "n">>
T_py == <<"p", "y">>
T_c == <<"c">>
T_r == <<"r">>

\* None, and the empty str and bytes: all falsy
None == <<>>

\* two byte values are enough to tell equal outputs from different ones
Bytes == UNION {[1..n -> {0, 1}] : n \in 0..MaxLen}

P_p == <<"p">>
P_ppy == <<"p", ".", "p", "y">>
P_dotppy == <<".", "/", "p", ".", "p", "y">>
P_dppy == <<"d", "/", "p", ".", "p", "y">>
P_pxpy == <<"p", ".", "x", ".", "p", "y">>
P_pc == <<"p", ".", "c">>
P_q == <<"q">>
P_qpy == <<"q", ".", "p", "y">>
A_a == <<"a">>
A_b == <<"b">>
A_abs == <<"/", "w", "/", "a">>
A_opt == <<"-", "x">>
G_g == <<"g">>
G_h == <<"h">>
G_testsb == <<"t", "e", "s", "t", "s", "b">>
F_f1 == <<"f", "1">>

(* ------------------------------------------------------------------ *)
(* State                                                                *)
(* ------------------------------------------------------------------ *)

VARIABLES
    args,          \* vars(parse_args()): the commands dict
    cwd,           \* CURRENT_FOLDER = os.getcwd()
    dirs,          \* the directories that exist
    files,         \* the regular files that exist, with their bytes
    listing,       \* directory -> the paths glob yields for dir/*, in its order
    program,       \* the stdouts the program under test can write
    pc,            \* position in main
    exc,           \* the exception that ended main, "" while none
    TIMEOUT,       \* the global TIMEOUT
    NO_SOLUTIONS,  \* the global NO_SOLUTIONS
    out,           \* what was printed on the terminal, in order
    pout,          \* the lines of p.out, <<>> while it does not exist
    queue,         \* the cases the running loop has still to visit
    globq,         \* batch_test: the top-level entries still to visit
    count,         \* batch_test: count; file_test: the enumerate index
    spawned,       \* the argv of every subprocess.run call, in order
    last,          \* the facts of the latest run_test call
    ran,           \* every run_test call so far: its case and how it ended
    sync_args,     \* cse.py: the flags and items cse_sync is called with
    IN_CSE_FOLDER, \* cse.py: the global IN_CSE_FOLDER
    sync_pc,       \* cse.py: position in cse_sync
    sync_queue,    \* cse.py: the items the loop has still to visit
    sync_exc,      \* cse.py: the exception that ended cse_sync, "" while none
    sync_popen,    \* cse.py: the argv of every process started, in order
    sync_out,      \* cse.py: what was printed, in order
    sync_log,      \* cse.py: what happened to each item visited
    opts,          \* files.py: the dict parse_arguments returns
    CONFIG,        \* files.py: the filetypes the configuration has templates for
    disk,          \* files.py: the files of the working directory, with contents
    folders,       \* files.py: the directories of the working directory
    gen_pc,        \* files.py: position in main
    gen_exc,       \* files.py: the exception that ended main, "" while none
    gen_out,       \* files.py: what was printed, in order
    gen_run,       \* files.py: the commands run with subprocess.run, in order
    answers,       \* files.py: the prompts shown with the answers typed
    replaced       \* files.py: the existing files whose contents main replaced

\* the state of cse.py
cse == <<sync_args, IN_CSE_FOLDER, sync_pc, sync_queue, sync_exc, sync_popen, sync_out,
         sync_log>>

\* the state of files.py
filespy == <<opts, CONFIG, disk, folders, gen_pc, gen_exc, gen_out, gen_run, answers,
             replaced>>

\* what no step of autotest.py changes
world == <<cwd, dirs, files, listing, program, cse, filespy>>

\* the state of autotest.py
autotest == <<args, cwd, dirs, files, listing, program, pc, exc, TIMEOUT, NO_SOLUTIONS,
              out, pout, queue, globq, count, spawned, last, ran>>

vars == <<autotest, cse, filespy>>

(* ------------------------------------------------------------------ *)
(* The file system                                                      *)
(* ------------------------------------------------------------------ *)

\* a path relative to the working directory, made absolute; a leading ./ dropped
Abs(p) ==
    IF p # <<>> /\ p[1] = "/" THEN p
    ELSE IF StartsWith(p, <<".", "/">>) THEN cwd \o Slash \o From(p, 3)
    ELSE cwd \o Slash \o p

\* os.path.isfile, os.path.isdir, os.path.exists
IsFile(p) == Abs(p) \in DOMAIN files
IsDir(p) == Abs(p) \in dirs
Exists(p) == IsFile(p) \/ IsDir(p)

\* glob.glob(dir + '/*')
Glob(dir) == IF dir \in DOMAIN listing THEN listing[dir] ELSE <<>>

\* TEST_FOLDER_EXISTS, SOLUTIONS_FOLDER_EXISTS
TEST_FOLDER_EXISTS == (cwd \o S_tests) \in dirs
SOLUTIONS_FOLDER_EXISTS == (cwd \o S_solutions) \in dirs

(* ------------------------------------------------------------------ *)
(* Terminal messages and log lines                                      *)
(* ------------------------------------------------------------------ *)

\* one printed message: its kind, the str and the bytes and the number it shows
Msg(k, str, bytes, num) == [k |-> k, s |-> str, b |-> bytes, n |-> num]
M(k) == Msg(k, <<>>, <<>>, 0)

Kinds(seq) == {seq[i].k : i \in 1..Len(seq)}

(* ------------------------------------------------------------------ *)
(* check                                                                *)
(* ------------------------------------------------------------------ *)

\* pargs[0].split('.')[1]: ok is FALSE where the subscript raises IndexError
Extension(pargs) ==
    IF pargs = <<>> \/ Len(Split(pargs[1], ".")) < 2
    THEN [ok |-> FALSE, ext |-> <<>>]
    ELSE [ok |-> TRUE, ext |-> Split(pargs[1], ".")[2]]

\* check(commands): ret is "True", "False" or the exception raised; spawn is
\* the subprocess check itself runs; msgs is what it prints
check(c) ==
    LET pargs == c.positional_args
        help  == pargs = <<>>
        few   == ~help /\ c.file # T_r /\ Len(pargs) < 2
        miss  == few /\ ~Exists(pargs[1])
        need2 == few /\ ~miss /\ ~c.testcases /\ ~c.output
        rtest == c.file = T_r /\ Len(pargs) < 1 /\ ~c.testcases
        typed == c.file # T_r /\ c.file # None
        ext   == Extension(pargs)
        badx  == typed /\ ext.ok /\ ext.ext # c.file
        first == (IF help THEN <<M("help")>> ELSE <<>>)
                 \o (IF miss THEN <<M("missing program file")>> ELSE <<>>)
                 \o (IF need2 THEN <<M("expected <program> <test_file>")>> ELSE <<>>)
        spawn == IF help THEN <<[argv |-> <<<<"-", "h">>>>, timeout |-> 0, stdin |-> FALSE]>>
                 ELSE <<>>
    IN  IF c.testcases /\ ~TEST_FOLDER_EXISTS
        THEN [ret |-> "False", spawn |-> <<>>, msgs |-> <<M("the -t flag requires a tests directory")>>]
        ELSE IF ~c.testcases /\ ~(c.input \/ c.output)
        THEN [ret |-> "False", spawn |-> <<>>, msgs |-> <<M("require the use of the -o flag")>>]
        ELSE IF typed /\ ~ext.ok
        THEN [ret |-> "IndexError", spawn |-> spawn, msgs |-> first]
        ELSE [ret |-> IF help \/ miss \/ need2 \/ rtest \/ badx THEN "False" ELSE "True",
              spawn |-> spawn,
              msgs |-> first
                       \o (IF rtest THEN <<M("expected <test_file>")>> ELSE <<>>)
                       \o (IF badx THEN <<M("Invalid program filetype provided")>> ELSE <<>>)]

(* ------------------------------------------------------------------ *)
(* run_test                                                             *)
(* ------------------------------------------------------------------ *)

\* what a NamedTemporaryFile holds on disk after one write() and no flush:
\* a write that fits the buffer has not reached the file
OnDisk(data) == IF Len(data) > BufSize THEN data ELSE <<>>

\* filecmp.cmp(f1, f2) (shallow): equal size and mtime is equality, unequal
\* size is inequality, else the contents decide
FileCmp(d1, d2, sameMtime) ==
    IF Len(d1) = Len(d2) /\ sameMtime THEN TRUE
    ELSE IF Len(d1) # Len(d2) THEN FALSE
    ELSE d1 = d2

\* the comparison of lines 148-152: both values written to temporary files,
\* the files compared
Compare(stdout, solution, sameMtime) ==
    FileCmp(OnDisk(stdout), OnDisk(solution), sameMtime)

\* the argv run_test builds
RunCmd(c) ==
    LET pargs == c.positional_args
        head  == IF c.file = T_r THEN <<N_cargo, N_run>>
                 ELSE IF Contains(pargs[1], "/") THEN <<pargs[1]>>
                 ELSE <<<<".", "/">> \o pargs[1]>>
    IN  head \o Tail(pargs)

\* the path run_test looks the expected output up at
Solve(folder) == Replace(folder, S_tests, S_solutions)

\* testfile as run_test first computes it
TestFile(folder) == LastTwo(folder)

\* ./program or program, the name shown for a run without a test file
ProgramName(c) ==
    IF Contains(c.positional_args[1], "/") THEN c.positional_args[1]
    ELSE <<".", "/">> \o c.positional_args[1]

NoFacts ==
    [verdict |-> "init", folder |-> <<>>, testfile |-> <<>>, solve |-> <<>>,
     found |-> FALSE, stdout |-> <<>>, stderr |-> <<>>, solution |-> <<>>,
     shown |-> <<>>, timeout |-> 0, to |-> FALSE]

\* line 144: an expected output is read for the case
Found(folder) ==
    (Solve(folder) \in DOMAIN files \/ Solve(folder) \in dirs) /\ Solve(folder) # folder

\* lines 141-146: solution
Solution(folder) ==
    IF Found(folder) /\ Solve(folder) \in DOMAIN files THEN files[Solve(folder)] ELSE <<>>

\* lines 147-158: how the case is classified
Verdict(so, se, solution, mt) ==
    IF so # <<>> /\ solution # <<>>
    THEN (IF Compare(so, solution, mt) THEN "passed" ELSE "failed")
    ELSE IF se = <<>> THEN "nosol" ELSE "none"

\* line 159: the output shown and logged
Output(so, se) == IF se # <<>> THEN se ELSE so

\* NoSolEntry with the append of line 157 left out
NoSolEntry_Never(verdict, folder) == <<>>

\* lines 156-157: what the case adds to NO_SOLUTIONS
NoSolEntry(verdict, folder) ==
    IF verdict = "nosol" THEN <<TestFile(folder)>> ELSE <<>>

\* lines 172-175: what the case appends to p.out
LogBlock(c, cmd, testfile, output) ==
    IF c.copy
    THEN <<Msg("cmd", Join(cmd, <<" ">>) \o <<" ">> \o testfile, <<>>, 0),
           Msg("output", <<>>, output, 0)>>
    ELSE <<>>

\* lines 160-171: what the case shows of the outputs
Display(c, testfile, output, solution) ==
    IF c.output /\ solution # <<>>
    THEN <<Msg("Program output", testfile, output, 0),
           Msg("Expected solution", testfile, solution, 0)>>
    ELSE IF c.output /\ (c.verbose \/ ~c.input)
    THEN <<Msg("Program output", testfile, output, 0)>>
    ELSE <<>>

\* a run_test call ended by the exception e
Raises(e, spawn, facts) ==
    [exc |-> e, spawn |-> spawn, prints |-> <<>>, nosol |-> <<>>, logs |-> <<>>,
     facts |-> [facts EXCEPT !.verdict = "raised"]]

\* OnTimeout without the except clause: TimeoutExpired leaves run_test
OnTimeout_Uncaught(spawn, facts) ==
    [exc |-> "TimeoutExpired", spawn |-> spawn, prints |-> <<>>, nosol |-> <<>>,
     logs |-> <<>>, facts |-> [facts EXCEPT !.verdict = "raised"]]

\* lines 137-139: the child timed out
OnTimeout(spawn, facts) ==
    [exc |-> "", spawn |-> spawn, prints |-> <<M("timed out")>>, nosol |-> <<>>,
     logs |-> <<>>, facts |-> [facts EXCEPT !.verdict = "timeout"]]

\* run_test(commands, folder) for a child that times out (to) or writes
\* so to stdout and se to stderr; mt: the two temporary files got the same mtime
run_test(c, folder, to, so, se, mt) ==
    LET cmd      == RunCmd(c)
        runs     == c.file = T_r \/ IsFile(cmd[1])
        readable == ~c.input \/ folder \in DOMAIN files
        solution == Solution(folder)
        verdict  == Verdict(so, se, solution, mt)
        output   == Output(so, se)
        testfile == IF c.output /\ TestFile(folder) = <<>> THEN ProgramName(c)
                    ELSE TestFile(folder)
        spawn    == <<[argv |-> cmd, timeout |-> TIMEOUT, stdin |-> c.input]>>
        facts    == [NoFacts EXCEPT !.folder = folder, !.testfile = TestFile(folder),
                                    !.timeout = TIMEOUT, !.solve = Solve(folder),
                                    !.to = to /\ readable /\ runs]
    IN  IF ~readable \/ ~runs
        THEN Raises("FileNotFoundError", <<>>, facts)
        ELSE IF to
        THEN OnTimeout(spawn, facts)
        ELSE IF Found(folder) /\ Solve(folder) \in dirs
        THEN Raises("IsADirectoryError", spawn, facts)
        ELSE [exc |-> "",
              spawn |-> spawn,
              prints |->
                  (CASE verdict = "passed" -> <<M("Test passed!")>>
                     [] verdict = "failed" -> <<M("Test failed.")>>
                     [] verdict = "nosol" -> <<M("..")>>
                     [] OTHER -> <<>>)
                  \o Display(c, testfile, output, solution),
              nosol |-> NoSolEntry(verdict, folder),
              logs |-> LogBlock(c, cmd, testfile, output),
              facts |-> [facts EXCEPT !.verdict = verdict, !.found = Found(folder),
                                      !.stdout = so, !.stderr = se,
                                      !.solution = solution, !.shown = output]]

(* ------------------------------------------------------------------ *)
(* batch_test and file_test helpers                                     *)
(* ------------------------------------------------------------------ *)

\* the sort key of line 199: int(re.sub(r'[a-zA-Z]*', '', x[-3:]))
SortKey(x) == PyInt(StripLetters(LastN(x, 3)))

RECURSIVE InsertByKey(_, _)
\* x put into a list ordered by key, behind the elements of equal key
InsertByKey(sorted, x) ==
    IF sorted = <<>> THEN <<x>>
    ELSE IF SortKey(x).val < SortKey(sorted[1]).val THEN <<x>> \o sorted
    ELSE <<sorted[1]>> \o InsertByKey(Tail(sorted), x)

RECURSIVE SortedCases(_)
\* sorted(paths, key=...): stable, ascending by key
SortedCases(paths) ==
    IF paths = <<>> THEN <<>>
    ELSE InsertByKey(SortedCases(SubSeq(paths, 1, Len(paths) - 1)), paths[Len(paths)])

\* sorted() raises ValueError when the key of some element does
SortRaises(paths) == \E i \in 1..Len(paths) : ~SortKey(paths[i]).ok

\* line 192: the filter lets the entry through
PassesFilter(c, file) ==
    c.filter = None
    \/ \E i \in 1..Len(c.filter) : \E j \in 1..Len(LastN(Split(file, "/"), 2)) :
           c.filter[i] = LastN(Split(file, "/"), 2)[j]

\* file_test: index_start
IndexStart(c) == IF c.file = T_r THEN 0 ELSE 1

\* int(args['timeout']): args['timeout'] is the list argparse builds for
\* nargs=1, and int() of a list raises TypeError
IntOfTimeout(t) == [ok |-> FALSE, val |-> 0, exc |-> "TypeError"]

DefaultTimeout == 5

(* ------------------------------------------------------------------ *)
(* The invocations the model runs                                       *)
(* ------------------------------------------------------------------ *)

Entry(name, isdir, kids) == [name |-> name, dir |-> isdir, kids |-> kids]

\* a working directory cw with a tests/ tree of the entries tops (in glob
\* order), the regular files present (relative to cw) and the files sols
\* (pairs of absolute path and bytes)
MkWorld(cw, hasTests, hasSol, tops, present, sols) ==
    LET troot  == cw \o S_tests
        ents   == {tops[i] : i \in 1..Len(tops)}
        groups == {e \in ents : e.dir}
        cases  == {troot \o Slash \o e.name : e \in ents \ groups}
                  \cup UNION {{troot \o Slash \o e.name \o Slash \o e.kids[i] :
                               i \in 1..Len(e.kids)} : e \in groups}
        plain  == (IF hasTests THEN cases ELSE {})
                  \cup {cw \o Slash \o f : f \in present}
        spaths == {sp[1] : sp \in sols}
    IN  [cwd |-> cw,
         dirs |-> {cw}
                  \cup (IF hasTests
                        THEN {troot} \cup {troot \o Slash \o e.name : e \in groups}
                        ELSE {})
                  \cup (IF hasSol THEN {cw \o S_solutions} ELSE {}),
         files |-> [f \in plain \cup spaths |->
                       IF f \in spaths THEN (CHOOSE sp \in sols : sp[1] = f)[2]
                       ELSE <<>>],
         listing |-> IF hasTests
                     THEN [d \in {troot} \cup {troot \o Slash \o e.name : e \in groups} |->
                             IF d = troot
                             THEN [i \in 1..Len(tops) |-> troot \o Slash \o tops[i].name]
                             ELSE LET e == CHOOSE g \in groups : troot \o Slash \o g.name = d
                                  IN  [i \in 1..Len(e.kids) |-> d \o Slash \o e.kids[i]]]
                     ELSE <<>>]

BaseArgs ==
    [file |-> None, input |-> TRUE, output |-> FALSE, verbose |-> FALSE,
     copy |-> FALSE, testcases |-> TRUE, filter |-> None, timeout |-> None,
     positional_args |-> <<P_p>>]

Programs == {P_p, P_ppy, P_dppy, P_pxpy, P_pc}

W_w == <<"/", "w">>
W_tests_w == S_tests \o W_w

K_ca1 == <<"c", "a", "1">>
K_c1 == <<"c", "1">>
K_ca2 == <<"c", "a", "2">>
K_ca10 == <<"c", "a", "1", "0">>
K_c999 == <<"c", "9", "9", "9">>
K_c1000 == <<"c", "1", "0", "0", "0">>
K_cm1 == <<"c", "-", "1">>
K_cm2 == <<"c", "-", "2">>
K_t_1 == <<"t", "_", "1">>
K_1 == <<"1">>
K_a1b2 == <<"a", "1", "b", "2">>
K_ab3 == <<"a", "b", "3">>

\* the listings of a group directory, in glob order
KidLists ==
    {<<K_ca2, K_ca10, K_ca1>>, <<K_ca10, K_ca2>>, <<K_ca1, K_ca2>>, <<K_c999, K_c1000>>,
     <<K_cm1, K_cm2>>, <<K_ca1, K_t_1>>, <<K_1, K_ca2>>, <<K_c1>>, <<K_a1b2, K_ab3>>,
     <<>>}

\* the expected outputs a solution file holds
SolContents == {<<>>, <<0>>, <<0, 1>>}

\* a solution file at path with one of the contents, or none
Opt(path, contents) == {{}} \cup {{<<path, c>>} : c \in contents}

E_f1 == Entry(F_f1, FALSE, <<>>)

\* the programs under test: one that may write any output, one whose outputs
\* are a few, one that writes a byte or nothing
AnyOutput == Bytes
FewOutputs == {<<>>, <<0>>, <<0, 1>>}
Terse == {<<>>, <<0>>}

Scenario(a, w, po, pr) == [a |-> a, w |-> w, po |-> po, pr |-> pr]

\* batch runs of one case that differ in the expected output present and in
\* the names on the way to it: cw the working directory, hs whether
\* solutions/ exists, gn the name of the group directory
CompareFor(ov, cw, hs, gn) ==
    LET root   == cw \o S_solutions
        right  == root \o Slash \o gn \o Slash \o K_ca1
        lookup == Solve(cw \o S_tests \o Slash \o gn \o Slash \o K_ca1)
    IN  {Scenario([BaseArgs EXCEPT !.output = ov[1], !.verbose = ov[2]],
                  MkWorld(cw, TRUE, hs, <<Entry(gn, TRUE, <<K_ca1>>)>>, {P_p},
                          s2 \cup s3),
                  <<>>, AnyOutput) :
            s2 \in IF hs THEN Opt(right, SolContents) ELSE {{}},
            s3 \in IF lookup # right THEN Opt(lookup, {<<0>>}) ELSE {{}}}

\* the outputs are shown (-o, -v) in the runs under /w over the group g
CompareScenarios ==
    UNION {CompareFor(<<FALSE, FALSE>>, cw, hs, gn) :
        cw \in {W_w, W_tests_w}, hs \in BOOLEAN, gn \in {G_g, G_testsb}}
    \cup UNION {CompareFor(ov, W_w, hs, G_g) :
        ov \in {<<TRUE, FALSE>>, <<TRUE, TRUE>>}, hs \in BOOLEAN}

\* batch runs over a case in tests/ itself and one in a group directory
MixedFor(hs) ==
    {Scenario(BaseArgs,
              MkWorld(W_w, TRUE, hs, <<E_f1, Entry(G_g, TRUE, <<K_ca1>>)>>, {P_p},
                      s1 \cup s2),
              <<>>, FewOutputs) :
        s1 \in IF hs THEN Opt(W_w \o S_solutions \o Slash \o F_f1, {<<0>>}) ELSE {{}},
        s2 \in IF hs
               THEN Opt(W_w \o S_solutions \o Slash \o G_g \o Slash \o K_ca1, {<<0, 1>>})
               ELSE {{}}}

MixedScenarios == MixedFor(TRUE) \cup MixedFor(FALSE)

\* batch runs over one group directory and its listing
OrderScenarios ==
    {Scenario(BaseArgs,
              MkWorld(W_w, TRUE, TRUE, around[1] \o <<Entry(G_g, TRUE, kids)>> \o around[2],
                      {P_p}, {}),
              <<>>, Terse) :
        kids \in KidLists,
        around \in {<<<<>>, <<>>>>, <<<<E_f1>>, <<>>>>, <<<<>>, <<E_f1>>>>}}

Filters == {None, <<G_g>>, <<G_h>>, <<N_tests>>, <<F_f1>>, <<K_ca1>>, <<A_b>>}

\* batch runs with a filter
FilterScenarios ==
    {Scenario([BaseArgs EXCEPT !.filter = f],
              MkWorld(W_w, TRUE, TRUE, tops, {P_p}, {}),
              <<>>, Terse) :
        f \in Filters,
        tops \in {<<Entry(G_g, TRUE, <<K_ca1>>), Entry(G_h, TRUE, <<K_ca1>>), E_f1>>,
                  <<E_f1, Entry(G_g, TRUE, <<K_ca1, K_ca2>>)>>}}

\* runs that copy to p.out, over a p.out left by an earlier run or none
CopyScenarios ==
    {Scenario([BaseArgs EXCEPT !.copy = TRUE, !.output = o, !.testcases = t,
                               !.input = t],
              MkWorld(W_w, TRUE, TRUE, <<Entry(G_g, TRUE, <<K_ca1, K_ca2>>)>>, {P_p}, s1),
              po, FewOutputs) :
        o \in BOOLEAN, t \in BOOLEAN, po \in {<<>>, <<M("old")>>},
        s1 \in Opt(W_w \o S_solutions \o Slash \o G_g \o Slash \o K_ca1, {<<0>>})}

Pargs ==
    {<<>>} \cup {<<p>> : p \in Programs \cup {P_q, P_qpy, P_dotppy}}
    \cup {<<p, A_a>> : p \in {P_p, P_q, P_ppy, P_qpy}}

\* every combination of the flags, over the positional arguments Pargs
ArgScenarios ==
    {Scenario([BaseArgs EXCEPT !.file = ft, !.input = i, !.output = o,
                               !.testcases = t, !.filter = f, !.timeout = tm,
                               !.positional_args = pa],
              MkWorld(W_w, ht, TRUE, <<E_f1>>, Programs \cup {A_a}, {}),
              <<>>, Terse) :
        ft \in {None, T_r, T_py, T_c}, i \in BOOLEAN, o \in BOOLEAN, t \in BOOLEAN,
        f \in {None, <<G_g>>}, tm \in {None, <<<<"3">>>>}, pa \in Pargs,
        ht \in BOOLEAN}

A_tf1 == N_tests \o Slash \o F_f1

FileArgs ==
    {<<>>} \cup {<<x>> : x \in {A_a, A_b, A_abs}}
    \cup {<<x, y>> : x \in {A_a, A_b, A_abs}, y \in {A_a, A_b, A_abs}}
    \cup {<<A_b, A_a, A_b>>, <<A_a, A_b, A_a>>}

\* single-case runs over lists of file arguments, present and missing
FileScenarios ==
    {Scenario([BaseArgs EXCEPT !.file = ft, !.output = o, !.testcases = FALSE,
                               !.positional_args =
                                   (IF ft = T_r THEN <<>> ELSE <<pr>>) \o fa],
              MkWorld(W_w, TRUE, TRUE, <<E_f1>>, {P_p, A_a}, {}),
              <<>>, FewOutputs) :
        ft \in {None, T_r}, o \in BOOLEAN, pr \in {P_p, P_q}, fa \in FileArgs}
    \cup
    {Scenario([BaseArgs EXCEPT !.testcases = FALSE,
                               !.positional_args = <<P_p, A_tf1>>],
              MkWorld(W_w, TRUE, TRUE, <<E_f1>>, {P_p}, s1),
              <<>>, AnyOutput) :
        s1 \in Opt(W_w \o S_solutions \o Slash \o F_f1, SolContents)}

Scenarios ==
    CompareScenarios \cup MixedScenarios \cup OrderScenarios \cup FilterScenarios
    \cup CopyScenarios \cup ArgScenarios \cup FileScenarios

\* cse.py not run
CseIdle ==
    /\ sync_args = [copy |-> FALSE, force |-> FALSE, download |-> FALSE, items |-> <<>>]
    /\ IN_CSE_FOLDER = FALSE
    /\ sync_pc = "idle"
    /\ sync_queue = <<>>
    /\ sync_exc = ""
    /\ sync_popen = <<>>
    /\ sync_out = <<>>
    /\ sync_log = <<>>

\* files.py not run
FilesIdle ==
    /\ opts = [filetype |-> <<>>, file_name |-> <<>>, tests |-> FALSE, standard |-> <<>>]
    /\ CONFIG = {}
    /\ disk = <<>>
    /\ folders = {}
    /\ gen_pc = "idle"
    /\ gen_exc = ""
    /\ gen_out = <<>>
    /\ gen_run = <<>>
    /\ answers = <<>>
    /\ replaced = {}

Init ==
    \E sc \in Scenarios :
        /\ args = sc.a
        /\ cwd = sc.w.cwd
        /\ dirs = sc.w.dirs
        /\ files = sc.w.files
        /\ listing = sc.w.listing
        /\ program = sc.pr
        /\ pout = sc.po
        /\ pc = "start"
        /\ exc = ""
        /\ TIMEOUT = DefaultTimeout
        /\ NO_SOLUTIONS = <<>>
        /\ out = <<>>
        /\ queue = <<>>
        /\ globq = <<>>
        /\ count = 0
        /\ spawned = <<>>
        /\ last = NoFacts
        /\ ran = <<>>
        /\ CseIdle
        /\ FilesIdle

(* ------------------------------------------------------------------ *)
(* main                                                                 *)
(* ------------------------------------------------------------------ *)

\* the children the model runs: what they write, whether they time out
StdOuts == program
StdErrs == {<<>>, <<0>>}

\* a child is one that times out, or one that writes so and se; mt: the two
\* temporary files of the comparison got the same mtime
Children ==
    {[to |-> TRUE, so |-> <<>>, se |-> <<>>, mt |-> FALSE]}
    \cup {[to |-> FALSE, so |-> so, se |-> se, mt |-> mt] :
             so \in StdOuts, se \in StdErrs, mt \in BOOLEAN}

\* the effect of one run_test call whose result is r, announced by label;
\* control goes to next unless the call raised
Ran(r, label, next) ==
    /\ out' = out \o label \o r.prints
    /\ spawned' = spawned \o r.spawn
    /\ NO_SOLUTIONS' = NO_SOLUTIONS \o r.nosol
    /\ pout' = pout \o r.logs
    /\ last' = r.facts
    /\ ran' = ran \o <<[folder |-> r.facts.folder, verdict |-> r.facts.verdict,
                        err |-> r.facts.stderr # <<>>]>>
    /\ exc' = r.exc
    /\ pc' = IF r.exc # "" THEN "crashed" ELSE next

\* lines 254-257: parse_args and check
Main_Check ==
    /\ pc = "start"
    /\ LET r == check(args)
       IN  /\ out' = out \o r.msgs
           /\ spawned' = spawned \o r.spawn
           /\ pc' = CASE r.ret = "True" -> "timeout"
                      [] r.ret = "False" -> "done"
                      [] OTHER -> "crashed"
           /\ exc' = IF r.ret \in {"True", "False"} THEN "" ELSE r.ret
    /\ UNCHANGED <<args, world, TIMEOUT, NO_SOLUTIONS, pout, queue, globq, count, last, ran>>

\* lines 259-260
Main_SetTimeout ==
    /\ pc = "timeout"
    /\ IF args.timeout # None
       THEN LET t == IntOfTimeout(args.timeout)
            IN  /\ TIMEOUT' = IF t.ok THEN t.val ELSE TIMEOUT
                /\ pc' = IF t.ok THEN "copy" ELSE "crashed"
                /\ exc' = IF t.ok THEN "" ELSE t.exc
       ELSE /\ pc' = "copy"
            /\ UNCHANGED <<TIMEOUT, exc>>
    /\ UNCHANGED <<args, world, NO_SOLUTIONS, out, pout, queue, globq, count, spawned, last, ran>>

\* lines 261-268: p.out opened with 'w', the run header written
Main_OpenLog ==
    /\ pc = "copy"
    /\ pout' = IF args.copy THEN <<M("Autotest run"), M("")>> ELSE pout
    /\ pc' = "dispatch"
    /\ UNCHANGED <<args, world, exc, TIMEOUT, NO_SOLUTIONS, out, queue, globq, count,
                   spawned, last, ran>>

\* lines 269-275 and 180-191: batch mode chosen, batch_test up to its loop
Main_Batch ==
    /\ pc = "dispatch"
    /\ args.testcases
    /\ out' = out
              \o (IF ~SOLUTIONS_FOLDER_EXISTS THEN <<M("Missing solutions folder")>> ELSE <<>>)
              \o (IF args.filter # None THEN <<M("filter")>> ELSE <<>>)
    /\ count' = 1
    /\ globq' = Glob(cwd \o S_tests)
    /\ pc' = "batch"
    /\ UNCHANGED <<args, world, exc, TIMEOUT, NO_SOLUTIONS, pout, queue, spawned, last, ran>>

\* lines 277-285 and 221-236, 246-247: single-case mode chosen, file_test up
\* to its loop or to its one run without a test file
Main_Files ==
    /\ pc = "dispatch"
    /\ ~args.testcases
    /\ LET rest == From(args.positional_args, IndexStart(args) + 1)
           said == IF args.output /\ ~args.input
                   THEN <<M("running with commandline inputs")>> ELSE <<>>
       IN  IF args.input
           THEN IF rest = <<>>
                THEN /\ out' = out \o said \o <<M("expected inputs")>>
                     /\ pc' = "finish"
                     /\ UNCHANGED <<queue, count>>
                ELSE /\ out' = out \o said
                     /\ queue' = rest
                     /\ count' = 1
                     /\ pc' = "file"
           ELSE /\ out' = out \o said
                /\ pc' = IF args.output THEN "outonly" ELSE "finish"
                /\ UNCHANGED <<queue, count>>
    /\ UNCHANGED <<args, world, exc, TIMEOUT, NO_SOLUTIONS, pout, globq, spawned, last, ran>>

\* lines 191-194: an entry the filter rejects
Batch_Skip ==
    /\ pc = "batch"
    /\ globq # <<>>
    /\ ~PassesFilter(args, Head(globq))
    /\ globq' = Tail(globq)
    /\ UNCHANGED <<args, world, pc, exc, TIMEOUT, NO_SOLUTIONS, out, pout, queue, count,
                   spawned, last, ran>>

\* lines 195-199: a group directory, its cases sorted
Batch_Group ==
    /\ pc = "batch"
    /\ globq # <<>>
    /\ PassesFilter(args, Head(globq))
    /\ Head(globq) \in dirs
    /\ globq' = Tail(globq)
    /\ IF SortRaises(Glob(Head(globq)))
       THEN /\ pc' = "crashed"
            /\ exc' = "ValueError"
            /\ UNCHANGED queue
       ELSE /\ queue' = SortedCases(Glob(Head(globq)))
            /\ pc' = IF Glob(Head(globq)) = <<>> THEN "batch" ELSE "group"
            /\ UNCHANGED exc
    /\ UNCHANGED <<args, world, TIMEOUT, NO_SOLUTIONS, out, pout, count, spawned, last, ran>>

\* lines 200-204: one case of the group
Batch_GroupCase ==
    /\ pc = "group"
    /\ queue # <<>>
    /\ \E ch \in Children :
           Ran(run_test(args, Head(queue), ch.to, ch.so, ch.se, ch.mt),
               <<Msg("test", LastTwo(Head(queue)), <<>>, count)>>,
               IF Tail(queue) = <<>> THEN "batch" ELSE "group")
    /\ queue' = Tail(queue)
    /\ count' = count + 1
    /\ UNCHANGED <<args, world, TIMEOUT, globq>>

\* lines 205-209: an entry that is a case itself
Batch_File ==
    /\ pc = "batch"
    /\ globq # <<>>
    /\ PassesFilter(args, Head(globq))
    /\ Head(globq) \notin dirs
    /\ \E ch \in Children :
           Ran(run_test(args, Head(globq), ch.to, ch.so, ch.se, ch.mt),
               <<Msg("test", Basename(Head(globq)), <<>>, count)>>,
               "batch")
    /\ globq' = Tail(globq)
    /\ count' = count + 1
    /\ UNCHANGED <<args, world, TIMEOUT, queue>>

\* lines 210-216: the end-of-run summary
Batch_Summary ==
    /\ pc = "batch"
    /\ globq = <<>>
    /\ out' = IF SOLUTIONS_FOLDER_EXISTS /\ NO_SOLUTIONS # <<>>
              THEN out \o <<M("No solutions were found for:")>>
                       \o [i \in 1..Len(NO_SOLUTIONS) |->
                             Msg("no solution", NO_SOLUTIONS[i], <<>>, 0)]
                       \o (IF ~args.output THEN <<M("Done. Use the -o flag")>> ELSE <<>>)
              ELSE out
    /\ pc' = "finish"
    /\ UNCHANGED <<args, world, exc, TIMEOUT, NO_SOLUTIONS, pout, queue, globq, count,
                   spawned, last, ran>>

\* lines 237-245: one file argument
File_Next ==
    /\ pc = "file"
    /\ queue # <<>>
    /\ LET f    == Head(queue)
           next == IF Tail(queue) = <<>> THEN "finish" ELSE "file"
       IN  IF IsFile(f)
           THEN \E ch \in Children :
                    Ran(run_test(args, cwd \o Slash \o f, ch.to, ch.so, ch.se, ch.mt),
                        <<Msg("test", f, <<>>, count)>>, next)
           ELSE /\ out' = out \o <<Msg("not found", Basename(f), <<>>, 0)>>
                /\ pc' = next
                /\ UNCHANGED <<exc, NO_SOLUTIONS, pout, spawned, last, ran>>
    /\ queue' = Tail(queue)
    /\ count' = count + 1
    /\ UNCHANGED <<args, world, TIMEOUT, globq>>

\* lines 246-248: the program run once without a test file
File_OutputOnly ==
    /\ pc = "outonly"
    /\ \E ch \in Children :
           Ran(run_test(args, <<>>, ch.to, ch.so, ch.se, ch.mt),
               <<Msg("program", ProgramName(args), <<>>, 0)>>, "finish")
    /\ UNCHANGED <<args, world, TIMEOUT, queue, globq, count>>

\* lines 286-287
Main_Finish ==
    /\ pc = "finish"
    /\ out' = IF args.copy THEN out \o <<M("program outputs written to p.out")>> ELSE out
    /\ pc' = "done"
    /\ UNCHANGED <<args, world, exc, TIMEOUT, NO_SOLUTIONS, pout, queue, globq, count,
                   spawned, last, ran>>

\* the run_test call the loop at pc makes next, with the label printed
\* before it: has is FALSE where the next step makes no call
Pending ==
    CASE pc = "group" /\ queue # <<>> ->
             [has |-> TRUE, folder |-> Head(queue),
              label |-> Msg("test", LastTwo(Head(queue)), <<>>, count)]
      [] pc = "batch" /\ globq # <<>> /\ PassesFilter(args, Head(globq))
             /\ Head(globq) \notin dirs ->
             [has |-> TRUE, folder |-> Head(globq),
              label |-> Msg("test", Basename(Head(globq)), <<>>, count)]
      [] pc = "file" /\ queue # <<>> /\ IsFile(Head(queue)) ->
             [has |-> TRUE, folder |-> cwd \o Slash \o Head(queue),
              label |-> Msg("test", Head(queue), <<>>, count)]
      [] pc = "outonly" ->
             [has |-> TRUE, folder |-> <<>>,
              label |-> Msg("program", ProgramName(args), <<>>, 0)]
      [] OTHER -> [has |-> FALSE, folder |-> <<>>, label |-> M("")]

\* the positions of main a signal can arrive at
Running ==
    {"start", "timeout", "copy", "dispatch", "batch", "group", "file", "outonly", "finish"}

\* OnInterrupt with main's except clause left out: the handler under
\* __main__ reports the interrupt
OnInterrupt_Propagated == <<M("keyboard interrupted..")>>

\* lines 288-289: main catches KeyboardInterrupt and passes; what is printed
OnInterrupt == <<>>

\* KeyboardInterrupt raised in main: between two steps, or (waiting) while
\* run_test waits for the child of the pending case
Interrupt ==
    /\ pc \in Running
    /\ \E waiting \in BOOLEAN :
           IF waiting
           THEN LET r == run_test(args, Pending.folder, TRUE, <<>>, <<>>, FALSE)
                IN  /\ Pending.has
                    /\ r.exc = ""
                    /\ out' = out \o <<Pending.label>> \o OnInterrupt
                    /\ spawned' = spawned \o r.spawn
           ELSE /\ out' = out \o OnInterrupt
                /\ UNCHANGED spawned
    /\ pc' = "interrupted"
    /\ UNCHANGED <<args, world, exc, TIMEOUT, NO_SOLUTIONS, pout, queue, globq, count,
                   last, ran>>

Next ==
    \/ Interrupt
    \/ Main_Check
    \/ Main_SetTimeout
    \/ Main_OpenLog
    \/ Main_Batch
    \/ Main_Files
    \/ Batch_Skip
    \/ Batch_Group
    \/ Batch_GroupCase
    \/ Batch_File
    \/ Batch_Summary
    \/ File_Next
    \/ File_OutputOnly
    \/ Main_Finish

Spec == Init /\ [][Next]_vars

(* ------------------------------------------------------------------ *)
(* cse.py: cse_sync                                                     *)
(* ------------------------------------------------------------------ *)

\* autotest.py not run
AutotestIdle ==
    /\ args = BaseArgs
    /\ cwd = W_w
    /\ dirs = {}
    /\ files = <<>>
    /\ listing = <<>>
    /\ program = {}
    /\ pout = <<>>
    /\ pc = "idle"
    /\ exc = ""
    /\ TIMEOUT = DefaultTimeout
    /\ NO_SOLUTIONS = <<>>
    /\ out = <<>>
    /\ queue = <<>>
    /\ globq = <<>>
    /\ count = 0
    /\ spawned = <<>>
    /\ last = NoFacts
    /\ ran = <<>>

\* the parameters of execute_and_stream, none with a default
Params_execute_and_stream == <<"command", "streaming">>

\* a process started for item: rsync with its options, or ssh
Command(prog, options, item) == [prog |-> prog, opts |-> options, item |-> item]

\* execute_and_stream(*cargs): a call that does not bind every parameter
\* raises TypeError before the body runs; the body starts cargs[1] with
\* Popen and returns response.returncode == 0, which is False because the
\* returncode stays None until poll() or wait() is called
execute_and_stream(cargs) ==
    IF Len(cargs) # Len(Params_execute_and_stream)
    THEN [exc |-> "TypeError", popen |-> <<>>, success |-> FALSE]
    ELSE [exc |-> "", popen |-> <<cargs[1]>>, success |-> FALSE]

\* cse_execute(line, output): one ssh command through execute_and_stream
cse_execute(line, output) == execute_and_stream(<<Command("ssh", line, <<>>), output>>)

\* what the user types at the '==> process? ' prompt
Answers == {"yes", "y", "Yes", "no", "YES", ""}

\* the answers the code takes for a yes
YesAnswers == {"yes", "y", "Yes"}

\* the invocations of cse sync: -f and -d exclude each other (lines 56-70)
SyncItems == {<<>>, <<A_a>>, <<A_a, A_b>>, <<A_b, A_b>>}

SyncArgs ==
    {[copy |-> c, force |-> fd[1], download |-> fd[2], items |-> it] :
        c \in BOOLEAN, fd \in {<<FALSE, FALSE>>, <<TRUE, FALSE>>, <<FALSE, TRUE>>},
        it \in SyncItems}

InitSync ==
    /\ AutotestIdle
    /\ FilesIdle
    /\ sync_args \in SyncArgs
    /\ IN_CSE_FOLDER \in BOOLEAN
    /\ sync_pc = "start"
    /\ sync_queue = <<>>
    /\ sync_exc = ""
    /\ sync_popen = <<>>
    /\ sync_out = <<>>
    /\ sync_log = <<>>

\* one visited item: what the dry run found, whether the prompt was shown
\* and what was answered, how many transfers were started, what was raised
Visit(item, dir, changes, asked, answer, real, raised) ==
    [item |-> item, dir |-> dir, changes |-> changes, asked |-> asked,
     answer |-> answer, real |-> real, raised |-> raised]

\* lines 214-220, 264: the folder check and the choice of direction
Sync_Enter ==
    /\ sync_pc = "start"
    /\ IF ~IN_CSE_FOLDER
       THEN /\ sync_out' = sync_out \o <<M("cse sync should only be used in the local cse folder")>>
            /\ sync_pc' = "done"
            /\ UNCHANGED sync_queue
       ELSE /\ sync_pc' = IF sync_args.download THEN "download" ELSE "upload"
            /\ sync_queue' = sync_args.items
            /\ UNCHANGED sync_out
    /\ UNCHANGED <<autotest, filespy, sync_args, IN_CSE_FOLDER, sync_exc, sync_popen, sync_log>>

\* the transfer as the download loop calls it (line 254): one argument
DownloadTransfer(cmd) == execute_and_stream(<<cmd>>)

\* lines 221-262: one item of the download loop; isdir and there are what
\* the listing of the remote folder says of the item, changes whether the
\* dry run printed anything, answer what the user types if asked
Sync_Download ==
    /\ sync_pc = "download"
    /\ sync_queue # <<>>
    /\ \E isdir \in BOOLEAN, there \in BOOLEAN, changes \in BOOLEAN, answer \in Answers :
           LET item  == Head(sync_queue)
               ls    == cse_execute("ls -al", FALSE)
               dry   == Command("rsync", "-ani", item)
               asked == changes /\ ~sync_args.force
               go    == asked /\ answer \in YesAnswers
               r     == DownloadTransfer(Command("rsync", "-aviP", item))
               real  == IF go THEN r.popen ELSE <<>>
               e     == IF go THEN r.exc ELSE ""
           IN  /\ (isdir => there)
               /\ sync_popen' = sync_popen \o ls.popen \o <<dry>> \o real
               /\ sync_out' = sync_out \o
                      (IF changes THEN <<Msg("downloading", item, <<>>, 0)>>
                       ELSE IF there THEN <<Msg("no changes", item, <<>>, 0)>>
                       ELSE <<Msg("does not exist", item, <<>>, 0)>>)
               /\ sync_log' = Append(sync_log,
                      Visit(item, "down", changes, asked, IF asked THEN answer ELSE "",
                            Len(real), e))
               /\ sync_exc' = e
               /\ sync_pc' = IF e # "" THEN "crashed" ELSE "download"
    /\ sync_queue' = Tail(sync_queue)
    /\ UNCHANGED <<autotest, filespy, sync_args, IN_CSE_FOLDER>>

\* line 263: the download loop is over
Sync_DownloadEnd ==
    /\ sync_pc = "download"
    /\ sync_queue = <<>>
    /\ sync_pc' = "done"
    /\ UNCHANGED <<autotest, filespy, sync_args, IN_CSE_FOLDER, sync_queue, sync_exc, sync_popen,
                   sync_out, sync_log>>

\* the transfer as the upload loop calls it (lines 290, 296): one argument
UploadTransfer(cmd) == execute_and_stream(<<cmd>>)

\* lines 265-306: one item of the upload loop; present whether the item
\* exists locally, changes whether the dry run printed anything, answer
\* what the user types if asked
Sync_Upload ==
    /\ sync_pc = "upload"
    /\ sync_queue # <<>>
    /\ \E present \in BOOLEAN, changes \in BOOLEAN, answer \in Answers :
           LET item  == Head(sync_queue)
               dry   == Command("rsync", "-acin", item)
               asked == present /\ changes /\ ~sync_args.force
               go    == present /\ changes
                        /\ (sync_args.force \/ (asked /\ answer \in YesAnswers))
               r     == UploadTransfer(Command("rsync", "-acivP", item))
               real  == IF go THEN r.popen ELSE <<>>
               e     == IF go THEN r.exc ELSE ""
           IN  /\ (~present => ~changes)
               /\ sync_popen' = sync_popen \o (IF present THEN <<dry>> ELSE <<>>) \o real
               /\ sync_out' = sync_out \o
                      (IF ~present THEN <<Msg("not found", item, <<>>, 0)>>
                       ELSE IF ~changes THEN <<Msg("no changes", item, <<>>, 0)>>
                       ELSE <<Msg("uploading from local computer", item, <<>>, 0)>>
                            \o (IF go THEN <<Msg("uploading", item, <<>>, 0)>> ELSE <<>>)
                            \o (IF go /\ e = "" /\ r.success
                                THEN <<Msg("is up to date", item, <<>>, 0)>> ELSE <<>>))
               /\ sync_log' = Append(sync_log,
                      Visit(item, "up", changes, asked, IF asked THEN answer ELSE "",
                            Len(real), e))
               /\ sync_exc' = e
               /\ sync_pc' = IF e # "" THEN "crashed" ELSE "upload"
    /\ sync_queue' = Tail(sync_queue)
    /\ UNCHANGED <<autotest, filespy, sync_args, IN_CSE_FOLDER>>

\* the upload loop is over
Sync_UploadEnd ==
    /\ sync_pc = "upload"
    /\ sync_queue = <<>>
    /\ sync_pc' = "done"
    /\ UNCHANGED <<autotest, filespy, sync_args, IN_CSE_FOLDER, sync_queue, sync_exc, sync_popen,
                   sync_out, sync_log>>

NextSync ==
    \/ Sync_Enter
    \/ Sync_Download
    \/ Sync_DownloadEnd
    \/ Sync_Upload
    \/ Sync_UploadEnd

SpecSync == InitSync /\ [][NextSync]_vars

(* ------------------------------------------------------------------ *)
(* files.py: main                                                       *)
(* ------------------------------------------------------------------ *)

F_cpp == <<"c", "p", "p">>
F_sh == <<"s", "h">>
F_zsh == <<"z", "s", "h">>
F_make == <<"m", "a", "k", "e">>
F_cmake == <<"c", "m", "a", "k", "e">>
Filetypes == {T_py, T_c, F_cpp, F_sh, F_zsh, F_make, F_cmake}

N_Makefile == <<"M", "a", "k", "e", "f", "i", "l", "e">>
N_CMakeLists == <<"C", "M", "a", "k", "e", "L", "i", "s", "t", "s", ".", "t", "x", "t">>
N_src == <<"s", "r", "c">>
N_lib == <<"l", "i", "b">>
N_build == <<"b", "u", "i", "l", "d">>
Dot == <<".">>

\* x is a substring of y: the test x in y on two str
InStr(x, y) == \E i \in 0..(Len(y) - Len(x)) : SubSeq(y, i + 1, i + Len(x)) = x

\* os.path.exists of a name in the working directory
OnDiskNow(name) == name \in DOMAIN disk \/ name \in folders

\* check_args(args): ok and the message; the KeyError of args['tests'],
\* a key only the cmake subcommand defines, is caught at line 154
check_args(a) ==
    LET filetype == a.filetype
        filename == a.file_name[1]
        suffix   == Split(filename, ".")
        bad(m)   == [ok |-> FALSE, msg |-> m]
        std      == a.standard
        badstd   == std # None
                    /\ IF suffix[2] = F_cpp
                       THEN std[1] \notin {<<"1", "1">>, <<"1", "7">>, <<"2", "0">>}
                       ELSE ~InStr(std[1], <<"9", "9">>)
    IN  IF Len(suffix) = 2 /\ filetype \notin {F_cmake, F_make}
        THEN bad("extraneous suffix")
        ELSE IF filetype \notin CONFIG
        THEN bad("no configuration found")
        ELSE IF filetype \notin {F_cmake, F_make}
        THEN [ok |-> TRUE, msg |-> ""]
        ELSE IF Len(suffix) # 2
        THEN bad("invalid file")
        ELSE IF suffix[2] = T_c /\ filetype = F_make
        THEN bad("no configuration found")
        ELSE IF badstd
        THEN bad("is not a valid standard")
        ELSE IF suffix[2] \notin {F_cpp, T_c}
        THEN bad("invalid file")
        ELSE IF ~OnDiskNow(filename)
        THEN bad("cannot be found in current directory")
        ELSE IF suffix[2] = T_c /\ a.tests
        THEN bad("catch2 cannot be run with c files")
        ELSE [ok |-> TRUE, msg |-> ""]

\* generate_file(args, CONFIG): the contents, "" when check_args fails;
\* cmake_factory adds the list args['standard'] to a str: TypeError
generate_file(a) ==
    LET c == check_args(a)
    IN  IF ~c.ok THEN [contents |-> "", msgs |-> <<M(c.msg)>>, exc |-> ""]
        ELSE IF a.filetype = F_cmake /\ a.standard # None
        THEN [contents |-> "", msgs |-> <<>>, exc |-> "TypeError"]
        ELSE [contents |-> "new", msgs |-> <<>>, exc |-> ""]

\* line 260: the name main checks and asks about
CheckedName(a) == a.file_name[1] \o Dot \o a.filetype

\* lines 267-273: the name main writes to
WrittenName(a) ==
    IF a.filetype = F_cmake THEN N_CMakeLists
    ELSE IF a.filetype = F_make THEN N_Makefile
    ELSE CheckedName(a)

\* the invocations of files.py and the working directories they run in
GenNames == {<<"x">>, <<"m", ".", "c", "p", "p">>, <<"m", ".", "c">>, <<"x", ".", "y">>}
GenStandards == {None, <<<<"2", "0">>>>, <<<<"9", "9">>>>}

GenOpts ==
    {[filetype |-> t, file_name |-> <<n>>, tests |-> FALSE, standard |-> None] :
        t \in Filetypes \ {F_make, F_cmake}, n \in GenNames}
    \cup {[filetype |-> F_make, file_name |-> <<n>>, tests |-> FALSE, standard |-> sd] :
              n \in GenNames, sd \in GenStandards}
    \cup {[filetype |-> F_cmake, file_name |-> <<n>>, tests |-> t, standard |-> sd] :
              n \in GenNames, t \in BOOLEAN, sd \in GenStandards}

\* the files a run can meet: the named source, the name main asks about,
\* the name it writes to, the files of src/ the cmake tests set-up touches
SrcCopy(a) == N_src \o Slash \o a.file_name[1]
SrcHeader(a) ==
    LET parts == Split(a.file_name[1], ".")
    IN  N_src \o Slash \o parts[1] \o Dot \o Replace(parts[2], <<"c">>, <<"h">>)
SrcTest(a) ==
    LET parts == Split(a.file_name[1], ".")
    IN  N_src \o Slash \o Replace(a.file_name[1], parts[2], <<"t", "e", "s", "t", ".">> \o parts[2])

GenDisks(a) ==
    LET two == Len(Split(a.file_name[1], ".")) = 2
        cand == {a.file_name[1], CheckedName(a), WrittenName(a)}
        deep == IF two /\ a.filetype = F_cmake /\ a.tests
                THEN {{}, {SrcCopy(a), SrcHeader(a)}} ELSE {{}}
    IN  {[f \in top \cup d |-> "old"] : top \in SUBSET cand, d \in deep}

InitFiles ==
    /\ AutotestIdle
    /\ CseIdle
    /\ opts \in GenOpts
    /\ CONFIG \in {Filetypes, Filetypes \ {F_zsh}}
    /\ disk \in GenDisks(opts)
    /\ folders \in {{}, {N_src, N_lib}}
    /\ (\E f \in DOMAIN disk : StartsWith(f, N_src \o Slash)) => N_src \in folders
    /\ gen_pc = "start"
    /\ gen_exc = ""
    /\ gen_out = <<>>
    /\ gen_run = <<>>
    /\ answers = <<>>
    /\ replaced = {}

\* the files d with name holding c
Put(d, name, c) == [f \in DOMAIN d \cup {name} |-> IF f = name THEN c ELSE d[f]]

\* the files d without name
Drop(d, name) == [f \in DOMAIN d \ {name} |-> d[f]]

\* lines 246-259: the arguments parsed, the contents generated
Gen_Generate ==
    /\ gen_pc = "start"
    /\ LET g == generate_file(opts)
       IN  /\ gen_out' = gen_out \o g.msgs
           /\ gen_exc' = g.exc
           /\ gen_pc' = IF g.exc # "" THEN "crashed"
                        ELSE IF g.contents = "" THEN "done"
                        ELSE "confirm"
    /\ UNCHANGED <<autotest, cse, opts, CONFIG, disk, folders, gen_run, answers, replaced>>

\* lines 260-266: the prompt, shown when the checked name exists
Gen_Confirm ==
    /\ gen_pc = "confirm"
    /\ IF OnDiskNow(CheckedName(opts))
       THEN \E answer \in Answers :
                /\ answers' = Append(answers, [file |-> CheckedName(opts), answer |-> answer])
                /\ IF answer \in YesAnswers
                   THEN gen_pc' = "write" /\ UNCHANGED gen_out
                   ELSE /\ gen_pc' = "done"
                        /\ gen_out' = gen_out \o <<M("file creation aborted")>>
       ELSE /\ gen_pc' = "write"
            /\ UNCHANGED <<answers, gen_out>>
    /\ UNCHANGED <<autotest, cse, opts, CONFIG, disk, folders, gen_exc, gen_run, replaced>>

\* lines 267-276: the file written, made executable for zsh, sh and py
Gen_Write ==
    /\ gen_pc = "write"
    /\ LET target == WrittenName(opts)
       IN  IF target \in folders
           THEN /\ gen_exc' = "IsADirectoryError"
                /\ gen_pc' = "crashed"
                /\ UNCHANGED <<disk, replaced, gen_run>>
           ELSE /\ disk' = Put(disk, target, "new")
                /\ replaced' = IF target \in DOMAIN disk THEN replaced \cup {target}
                               ELSE replaced
                /\ gen_run' = IF opts.filetype \in {F_zsh, F_sh, T_py}
                              THEN Append(gen_run, "chmod") ELSE gen_run
                /\ gen_pc' = IF opts.filetype = F_cmake THEN "cmake" ELSE "report"
                /\ UNCHANGED gen_exc
    /\ UNCHANGED <<autotest, cse, opts, CONFIG, folders, gen_out, answers>>

\* lines 277-302: the build folder and, with -t, the tests set-up: the
\* source moved into src/, a test file appended to, a header truncated
Gen_CMake ==
    /\ gen_pc = "cmake"
    /\ LET src  == opts.file_name[1]
           d1   == Put(Drop(disk, src), SrcCopy(opts), disk[src])
           d2   == Put(d1, SrcTest(opts),
                       IF SrcTest(opts) \in DOMAIN d1 THEN "appended" ELSE "new")
           d3   == Put(d2, SrcHeader(opts), "")
       IN  IF opts.tests
           THEN /\ disk' = d3
                /\ folders' = folders \cup {N_build, N_src}
                /\ replaced' = replaced
                                \cup ({SrcCopy(opts), SrcHeader(opts)} \cap DOMAIN disk)
                /\ gen_run' = gen_run \o <<"mkdir build">>
                                \o (IF N_lib \notin folders THEN <<"cp -r catch2">> ELSE <<>>)
                                \o (IF N_src \notin folders THEN <<"mkdir src">> ELSE <<>>)
                                \o <<"cmake">>
           ELSE /\ folders' = folders \cup {N_build}
                /\ gen_run' = gen_run \o <<"mkdir build", "cmake">>
                /\ UNCHANGED <<disk, replaced>>
    /\ gen_pc' = "report"
    /\ UNCHANGED <<autotest, cse, opts, CONFIG, gen_exc, gen_out, answers>>

\* line 303
Gen_Report ==
    /\ gen_pc = "report"
    /\ gen_out' = gen_out \o <<Msg("created", WrittenName(opts), <<>>, 0)>>
    /\ gen_pc' = "done"
    /\ UNCHANGED <<autotest, cse, opts, CONFIG, disk, folders, gen_exc, gen_run, answers,
                   replaced>>

NextFiles ==
    \/ Gen_Generate
    \/ Gen_Confirm
    \/ Gen_Write
    \/ Gen_CMake
    \/ Gen_Report

SpecFiles == InitFiles /\ [][NextFiles]_vars

(* ------------------------------------------------------------------ *)
(* Vocabulary of the properties                                         *)
(* ------------------------------------------------------------------ *)

\* check let the invocation through
CheckPassed == check(args).ret = "True"

\* main ran to its end without an exception
Completed == pc \in {"finish", "done"} /\ CheckPassed

\* the file under solutions/ with the relative path the case has under tests/
HasExpected(folder) ==
    /\ StartsWith(folder, cwd \o S_tests \o Slash)
    /\ (cwd \o S_solutions \o From(folder, Len(cwd \o S_tests) + 1)) \in DOMAIN files

\* the name is a line of the end-of-run summary
Listed(name) ==
    \E h \in 1..Len(out) : \E j \in (h + 1)..Len(out) :
        /\ out[h].k = "No solutions were found for:"
        /\ out[j] = Msg("no solution", name, <<>>, 0)

\* the cases run so far, as paths
RanFolders == [i \in 1..Len(ran) |-> ran[i].folder]

\* the file arguments of single-case mode
FileArguments == From(args.positional_args, IndexStart(args) + 1)

\* C1: an executed case whose expected output was found is reported passed
\* when stdout equals the expected bytes and failed when they differ, an
\* empty side included
C1_Claim ==
    (last.verdict \notin {"init", "timeout", "raised"} /\ last.found)
        => last.verdict = (IF last.stdout = last.solution THEN "passed" ELSE "failed")

\* C2: a case with no matching file under solutions/ is never reported
\* passed or failed
C2_Claim ==
    (last.verdict \notin {"init", "raised"} /\ ~HasExpected(last.folder))
        => last.verdict \notin {"passed", "failed"}

C4_Claim ==
    (args.copy /\ pc = "done" /\ CheckPassed)
        => /\ Len(pout) = 2 + 2 * Len(ran)
           /\ pout[1] = M("Autotest run")
           /\ \A i \in 2..Len(pout) : pout[i].k # "Autotest run"
           /\ \A i \in 1..Len(ran) :
                  /\ pout[2 * i + 1].k = "cmd"
                  /\ LastN(pout[2 * i + 1].s, Len(TestFile(ran[i].folder)))
                         = TestFile(ran[i].folder)
                  /\ pout[2 * i + 2].k = "output"

\* the cases batch_test has to run: the entries the filter lets through, a
\* group's cases in the order batch_test sorts them into
RECURSIVE CasesOf(_)
CasesOf(entries) ==
    IF entries = <<>> THEN <<>>
    ELSE (IF ~PassesFilter(args, Head(entries)) THEN <<>>
          ELSE IF Head(entries) \in dirs THEN SortedCases(Glob(Head(entries)))
          ELSE <<Head(entries)>>)
         \o CasesOf(Tail(entries))

\* the cases file_test has to run: the file arguments that are files
ArgumentCases ==
    LET present == SelectSeq(FileArguments, LAMBDA f : IsFile(f))
    IN  [i \in 1..Len(present) |-> cwd \o Slash \o present[i]]

\* a step in which a case timed out
TimedOutStep == Len(ran') = Len(ran) + 1 /\ last'.to

\* C5: a case that times out is reported 'timed out' and nothing else,
\* adds nothing to NO_SOLUTIONS and does not end the loop: the remaining
\* cases are still to be visited, and a run that reaches its end has
\* executed every case
C5_Timeout ==
    /\ [][TimedOutStep =>
            /\ Len(out') = Len(out) + 2
            /\ out'[Len(out) + 1].k \in {"test", "program"}
            /\ out'[Len(out')] = M("timed out")
            /\ NO_SOLUTIONS' = NO_SOLUTIONS
            /\ exc' = ""
            /\ pc' \in {"batch", "group", "file", "finish"}
            /\ (pc = "group" => queue' = Tail(queue) /\ globq' = globq)
            /\ (pc = "batch" => globq' = Tail(globq) /\ pc' = "batch")
            /\ (pc = "file" => queue' = Tail(queue))
            /\ (pc' = "finish" => queue' = <<>>)
            /\ (pc = "group" /\ queue' # <<>> => pc' = "group")
            /\ (pc = "file" /\ queue' # <<>> => pc' = "file")]_vars
    /\ [](Completed /\ args.testcases => RanFolders = CasesOf(Glob(cwd \o S_tests)))
    /\ [](Completed /\ ~args.testcases /\ args.input => RanFolders = ArgumentCases)

C5_Witness ==
    /\ pc = "done"
    /\ \E i \in 1..Len(ran) : \E j \in (i + 1)..Len(ran) :
           /\ ran[i].verdict = "timeout"
           /\ ran[j].verdict \in {"passed", "failed", "nosol", "none"}

\* the timeout the invocation asks for
WantedTimeout ==
    IF args.timeout = None THEN DefaultTimeout ELSE PyInt(args.timeout[1]).val

\* C6: every case runs with timeout 5 when -T is not given and with n when
\* -T n is given, and -T never keeps the tests from running
C6_Claim ==
    /\ \A i \in 1..Len(spawned) :
           spawned[i].argv # <<<<"-", "h">>>> => spawned[i].timeout = WantedTimeout
    /\ (args.timeout # None => exc # "TypeError")

\* the first positional argument names a program file that does not exist
NoProgram ==
    /\ args.positional_args # <<>>
    /\ args.file # T_r
    /\ ~Exists(args.positional_args[1])

\* C7: with the program file missing, or -t and no tests/ directory, check
\* returns False and no subprocess is spawned, whatever the other arguments
C7_Claim ==
    (pc \notin {"start", "interrupted"}
         /\ (NoProgram \/ (args.testcases /\ ~TEST_FOLDER_EXISTS)))
        => check(args).ret = "False" /\ spawned = <<>> /\ exc = ""

RECURSIVE TrailingDigits(_)
\* the digits a name ends in
TrailingDigits(name) ==
    IF name = <<>> \/ name[Len(name)] \notin Digits THEN <<>>
    ELSE TrailingDigits(SubSeq(name, 1, Len(name) - 1)) \o <<name[Len(name)]>>

\* the directory part of a path
Dirname(path) == SubSeq(path, 1, Len(path) - Len(Basename(path)) - 1)

\* C8: the cases of a group directory run in ascending order of the integer
\* their names end in, whatever its number of digits and whatever precedes it
C8_Claim ==
    /\ exc # "ValueError"
    /\ \A i \in 1..Len(ran) : \A j \in (i + 1)..Len(ran) :
           (Dirname(ran[i].folder) = Dirname(ran[j].folder)
               /\ Dirname(ran[i].folder) \in dirs /\ args.testcases)
           => DigitsVal(TrailingDigits(Basename(ran[i].folder)))
                  <= DigitsVal(TrailingDigits(Basename(ran[j].folder)))

\* the entry of tests/ a case belongs to
TopEntry(folder) == Split(From(folder, Len(cwd \o S_tests \o Slash) + 1), "/")[1]

\* C9: in batch mode with a filter, a case runs only if the name of its
\* top-level entry under tests/ is in the filter
C9_Claim ==
    (args.testcases /\ args.filter # None)
        => \A i \in 1..Len(ran) :
               \E k \in 1..Len(args.filter) : args.filter[k] = TopEntry(ran[i].folder)

\* C10: in single-case mode with -i each file argument, in order, is
\* executed under its 1-based position when it exists and reported not
\* found, without a process, when it does not, and every argument is reached
C10_Claim ==
    (~args.testcases /\ args.input /\ count >= 1)
        => /\ \A i \in 1..(count - 1) :
                  IF IsFile(FileArguments[i])
                  THEN /\ \E m \in 1..Len(out) : out[m] = Msg("test", FileArguments[i], <<>>, i)
                       /\ \E k \in 1..Len(ran) :
                              /\ ran[k].folder = cwd \o Slash \o FileArguments[i]
                              /\ ran[k].verdict # "raised"
                  ELSE /\ \E m \in 1..Len(out) :
                              out[m] = Msg("not found", FileArguments[i], <<>>, 0)
                       /\ \A k \in 1..Len(ran) :
                              ran[k].folder # cwd \o Slash \o FileArguments[i]
           /\ (pc \in {"finish", "done", "crashed"} => count - 1 = Len(FileArguments))

\* nothing of what main prints after its loops, and no report of the interrupt
Silent(msgs) ==
    \A i \in 1..Len(msgs) :
        msgs[i].k \notin {"No solutions were found for:", "no solution",
                          "Done. Use the -o flag", "program outputs written to p.out",
                          "keyboard interrupted..", "timed out", "Test passed!",
                          "Test failed.", ".."}

\* C11: a KeyboardInterrupt during a batch run prints nothing but the label
\* of the case it interrupts, leaves the end-of-run summary unprinted, and
\* after it no case starts and nothing more happens
C11_Interrupt ==
    /\ [][(args.testcases /\ pc \in {"batch", "group"} /\ pc' = "interrupted") =>
            /\ Len(out') <= Len(out) + 1
            /\ SubSeq(out', 1, Len(out)) = out
            /\ (Len(out') = Len(out) + 1 => out'[Len(out')].k = "test")
            /\ Silent(SubSeq(out', Len(out) + 1, Len(out')))
            /\ ~\E i \in 1..Len(out') : out'[i].k = "No solutions were found for:"
            /\ Len(spawned') <= Len(spawned) + 1
            /\ ran' = ran /\ NO_SOLUTIONS' = NO_SOLUTIONS /\ exc' = ""]_vars
    /\ [][pc = "interrupted" => UNCHANGED vars]_vars

\* a batch run interrupted while it waited for its second case, with a case
\* waiting for the summary
C11_Witness ==
    /\ pc = "interrupted" /\ args.testcases
    /\ Len(ran) = 1 /\ Len(spawned) = 2
    /\ NO_SOLUTIONS # <<>> /\ SOLUTIONS_FOLDER_EXISTS

\* the labels 'test n: ...' printed so far, in order
TestLabels == SelectSeq(out, LAMBDA m : m.k = "test")

\* C12: when a batch run has ended, every case that passes the filter has
\* been executed exactly once, in discovery order, none of the calls raised,
\* and the labels carry the numbers 1..n in execution order
C12_Claim ==
    (args.testcases /\ CheckPassed /\ pc \in {"done", "crashed"})
        => /\ RanFolders = CasesOf(Glob(cwd \o S_tests))
           /\ \A i \in 1..Len(ran) : ran[i].verdict # "raised"
           /\ Len(TestLabels) = Len(ran)
           /\ \A i \in 1..Len(TestLabels) : TestLabels[i].n = i

\* C13: with no positional arguments, whatever the flags, check shows the
\* help message and the invocation ends with no test run and no exception
C13_Claim ==
    (args.positional_args = <<>> /\ pc \notin {"start", "interrupted"})
        => /\ \E i \in 1..Len(out) : out[i] = M("help")
           /\ pc = "done" /\ exc = ""
           /\ ran = <<>>
           /\ \A i \in 1..Len(spawned) : spawned[i].argv = <<<<"-", "h">>>>

\* the latest run_test call compared stdout with an expected output
Compared == last.verdict \in {"passed", "failed"}

\* the latest run_test call showed or logged the program's output
Displayed ==
    /\ last.verdict \in {"passed", "failed", "nosol", "none"}
    /\ \/ args.copy
       \/ args.output /\ (last.solution # <<>> \/ args.verbose \/ ~args.input)

\* C14: the output run_test displays and logs is stderr only when the child
\* wrote to stderr and no comparison was made; after a comparison it is the
\* stdout that was compared
C14_Claim ==
    Displayed
        => last.shown = (IF last.stderr # <<>> /\ ~Compared THEN last.stderr
                         ELSE last.stdout)

\* the case's path with the tests root under the working directory replaced
\* by solutions and nothing else changed
SiblingPath(folder) == cwd \o S_solutions \o From(folder, Len(cwd \o S_tests) + 1)

\* C15: the path run_test looks the expected output up at is the case's
\* path with only the tests root replaced by solutions
C15_Claim ==
    (last.verdict \in {"passed", "failed", "nosol", "none"}
         /\ StartsWith(last.folder, cwd \o S_tests \o Slash))
        => last.solve = SiblingPath(last.folder)

\* the file extension of a path: what follows the last dot of its last
\* component, empty when that has no dot
FileExtension(path) ==
    LET parts == Split(Basename(path), ".")
    IN  IF Len(parts) < 2 THEN <<>> ELSE parts[Len(parts)]

\* check got as far as its filetype test (lines 104-110)
ReachedFiletypeTest ==
    /\ pc \notin {"start", "interrupted"}
    /\ ~(args.testcases /\ ~TEST_FOLDER_EXISTS)
    /\ (args.testcases \/ args.input \/ args.output)
    /\ args.file \in {T_py, T_c}
    /\ args.positional_args # <<>>

InvalidFiletypeReported ==
    \E i \in 1..Len(out) : out[i] = M("Invalid program filetype provided")

\* C16: with -f py or -f c, check reports an invalid filetype and returns
\* False when the program's extension differs from the filetype, and neither
\* reports one nor raises when it is the filetype
C16_Claim ==
    ReachedFiletypeTest
        => IF FileExtension(args.positional_args[1]) = args.file
           THEN ~InvalidFiletypeReported /\ exc # "IndexError"
           ELSE InvalidFiletypeReported /\ pc = "done" /\ ran = <<>>

\* the number of messages of kind k among msgs
CountKind(msgs, k) == Len(SelectSeq(msgs, LAMBDA m : m.k = k))

\* C17: a run_test call that spawns a child ends in exactly one of: 'timed
\* out', 'Test passed!', 'Test failed.', the case appended to NO_SOLUTIONS
C17_Claim ==
    [][(Len(ran') = Len(ran) + 1 /\ Len(spawned') = Len(spawned) + 1) =>
          LET new == SubSeq(out', Len(out) + 1, Len(out'))
          IN  CountKind(new, "timed out") + CountKind(new, "Test passed!")
                  + CountKind(new, "Test failed.")
                  + (Len(NO_SOLUTIONS') - Len(NO_SOLUTIONS)) = 1]_vars

\* C18: a step that appends a case to NO_SOLUTIONS is the run of a case for
\* which no expected-output file exists at the path run_test looks up
C18_Claim ==
    [][NO_SOLUTIONS' # NO_SOLUTIONS =>
          /\ NO_SOLUTIONS' = NO_SOLUTIONS \o <<TestFile(last'.folder)>>
          /\ last'.solve \notin DOMAIN files]_vars

\* the item's dry run reported changes and the transfer was asked for: by
\* the force flag or by a yes at the prompt
Approved(v) ==
    v.changes /\ (sync_args.force \/ (v.asked /\ v.answer \in YesAnswers))

\* C19: for each item of cse_sync a real transfer is started exactly once,
\* and nothing is raised, when the dry run reported changes and the force
\* flag is set or the prompt was answered yes, y or Yes; otherwise none is
\* started
C19_Claim ==
    \A i \in 1..Len(sync_log) :
        IF Approved(sync_log[i])
        THEN sync_log[i].real = 1 /\ sync_log[i].raised = ""
        ELSE sync_log[i].real = 0

\* the prompt 'File exists. Replace ...?' was answered yes, y or Yes
SaidYes == \E i \in 1..Len(answers) : answers[i].answer \in YesAnswers

\* C20: files.py replaces the contents of an existing file only after the
\* prompt was answered yes, y or Yes, whatever the filetype
C20_Claim == replaced # {} => SaidYes

====
